---------------------------- MODULE Spec2Model ----------------------------
(***************************************************************************)
(* Dataset layer of drevalpy: DrugResponseDataset and FeatureDataset       *)
(* (suite/data_wrapper.py).  One object at a time is constructed and its   *)
(* methods are called with inputs drawn from small sets.  A call either    *)
(* returns or raises; `last` records the call, the Python exception class  *)
(* it raised ("none" when it returned) and its return value.               *)
(*                                                                         *)
(* Python values:                                                          *)
(*   None / an attribute that was never assigned  -> <<>>, a value x held  *)
(*        by an optional attribute -> <<x>>                                *)
(*   dict -> [keys |-> sequence of keys in insertion order,                *)
(*           val  |-> function from the keys to the values]                *)
(*   1-D numpy array -> sequence of integers, its shape is its length      *)
(***************************************************************************)
EXTENDS Integers, Sequences, FiniteSets

VARIABLES obj, last

vars == <<obj, last>>

\* ------------------------------------------------------------- bounds
MaxN == 3        \* longest response / cell_line_ids / drug_ids sequence
MaxK == 3        \* largest n_cv_splits
MaxSeed == 6     \* largest random_state
MaxIds == 2      \* longest `identifiers` argument of get_feature_matrix

\* ------------------------------------------------------------- inputs
TargetTypes == {"IC50"}
Responses == {1}
CellLines == {"c1"}
Drugs == {"d1"}
Entities == {"a", "b"}
Identifiers == Entities \cup {"z"}
ViewOrder == <<"v1", "v2">>
Views == {"v1", "v2"}
Vectors == {<<1>>, <<2>>, <<1, 2>>, <<3, 4>>}
VectorsOf(view) == IF view = "v1" THEN {<<1>>, <<2>>, <<1, 2>>} ELSE {<<3, 4>>}
SplitModes == {"LPO", "LCO", "LDO", "XYZ"}
RandomizeModes == {"permutation", "gaussian", "zeroing", "shuffle"}
ValidationRatios == {10, 50}       \* validation_ratio in percent
Seeds == 1..MaxSeed

SeqsUpTo(S, n) == UNION {[1..m -> S] : m \in 0..n}

\* sequences without repeats: the key orders a dict over a subset of S can have
KeyOrders(S) == {s \in SeqsUpTo(S, Cardinality(S)) :
                    \A i, j \in 1..Len(s) : i # j => s[i] # s[j]}

Range(s) == {s[i] : i \in 1..Len(s)}

Dicts(K, V) == UNION {{[keys |-> ks, val |-> f] : f \in [Range(ks) -> V]} :
                         ks \in KeyOrders(K)}

\* the view dicts: every entity lists the views it holds in one order, with
\* a vector of the view's kind
ViewDicts == UNION {{[keys |-> SelectSeq(ViewOrder, LAMBDA v : v \in S), val |-> f] : f \in {g \in [S -> Vectors] : \A v \in S : g[v] \in VectorsOf(v)}} : S \in SUBSET Views}

None == <<>>

NoObject == [class |-> "none"]

Min(S) == CHOOSE x \in S : \A y \in S : x <= y

\* outcome of a call: exception class, its argument, return value, receiver after
Return(value, self) == [exc |-> "none", arg |-> "", ret |-> value, self |-> self]
Raise(exc, arg, self) == [exc |-> exc, arg |-> arg, ret |-> None, self |-> self]


\* ------------------------------------------------- DrugResponseDataset
\* __init__: stores its arguments unchecked; predictions is None and the
\* attribute cv_splits is not assigned.
DrugResponseDataset_init(target_type, response, cell_line_ids, drug_ids) ==
    Return(None,
           [class |-> "DrugResponseDataset",
            target_type |-> target_type,
            response |-> response,
            cell_line_ids |-> cell_line_ids,
            drug_ids |-> drug_ids,
            predictions |-> None,
            cv_splits |-> None])

\* Seeded shuffle: the permutation of s that the seed selects (the seed's
\* factorial-base digits pick the next element); equal seeds give equal orders.
RECURSIVE Shuffle(_, _)
Shuffle(s, seed) ==
    IF Len(s) = 0 THEN <<>>
    ELSE LET n == Len(s)
             i == (seed % n) + 1
             rest == [j \in 1..(n - 1) |-> IF j < i THEN s[j] ELSE s[j + 1]]
         IN  <<s[i]>> \o Shuffle(rest, seed \div n)

\* round(num / den) to the nearest integer, halves to the even neighbour
Round(num, den) ==
    LET q == num \div den
        r == num % den
    IN  IF 2 * r > den THEN q + 1
        ELSE IF 2 * r < den THEN q
        ELSE IF q % 2 = 0 THEN q ELSE q + 1

\* Bucket i of k over the shuffled record indices: contiguous chunks whose
\* sizes differ by at most one, the first (N mod k) chunks being the longer.
Bucket(shuffled, k, i) ==
    LET N == Len(shuffled)
        q == N \div k
        r == N % k
        start == (i - 1) * q + (IF i - 1 < r THEN i - 1 ELSE r)
        size == q + (IF i <= r THEN 1 ELSE 0)
    IN  {shuffled[j] : j \in (start + 1)..(start + size)}

\* Leave-pair-out splitter: fold i tests bucket i, the other records are the
\* training pool, of which round(validation_ratio * |pool|) seeded-random
\* records become validation when split_validation is set.
leave_pair_out_cv(n_cv_splits, response, cell_line_ids, drug_ids, split_validation, validation_ratio, random_state) ==
    LET N == Len(response)
        shuffled == Shuffle([i \in 1..N |-> i - 1], random_state)
        Fold(i) ==
            LET test == Bucket(shuffled, n_cv_splits, i)
                InPool(x) == x \notin test
                pool == Shuffle(SelectSeq(shuffled, InPool), random_state)
                nval == IF split_validation
                        THEN Round(validation_ratio * Len(pool), 100)
                        ELSE 0
            IN  [train |-> {pool[j] : j \in (nval + 1)..Len(pool)},
                 validation |-> {pool[j] : j \in 1..nval},
                 test |-> test]
    IN  [i \in 1..n_cv_splits |-> Fold(i)]

\* split_dataset with n_cv_splits and random_state passed in each other's place
split_dataset_swapped(self, n_cv_splits, mode, split_validation, validation_ratio, random_state) ==
    IF mode = "LPO"
    THEN LET cv_splits == leave_pair_out_cv(random_state, self.response,
                              self.cell_line_ids, self.drug_ids,
                              split_validation, validation_ratio, n_cv_splits)
         IN  Return(cv_splits, [self EXCEPT !.cv_splits = <<cv_splits>>])
    ELSE IF mode = "LCO"
    THEN Raise("NotImplementedError", "LCO split mode not implemented", self)
    ELSE IF mode = "LDO"
    THEN Raise("NotImplementedError", "LDO split mode not implemented", self)
    ELSE Raise("UnboundLocalError", "cv_splits", self)

\* split_dataset that does not forward split_validation (the splitter's
\* default, True, applies)
split_dataset_no_flag(self, n_cv_splits, mode, split_validation, validation_ratio, random_state) ==
    IF mode = "LPO"
    THEN LET cv_splits == leave_pair_out_cv(n_cv_splits, self.response,
                              self.cell_line_ids, self.drug_ids,
                              TRUE, validation_ratio, random_state)
         IN  Return(cv_splits, [self EXCEPT !.cv_splits = <<cv_splits>>])
    ELSE IF mode = "LCO"
    THEN Raise("NotImplementedError", "LCO split mode not implemented", self)
    ELSE IF mode = "LDO"
    THEN Raise("NotImplementedError", "LDO split mode not implemented", self)
    ELSE Raise("UnboundLocalError", "cv_splits", self)

\* split_dataset that starts from cv_splits = [] so that an unmatched mode
\* caches and returns the empty list
split_dataset_default_empty(self, n_cv_splits, mode, split_validation, validation_ratio, random_state) ==
    IF mode = "LPO"
    THEN LET cv_splits == leave_pair_out_cv(n_cv_splits, self.response,
                              self.cell_line_ids, self.drug_ids,
                              split_validation, validation_ratio, random_state)
         IN  Return(cv_splits, [self EXCEPT !.cv_splits = <<cv_splits>>])
    ELSE IF mode = "LCO"
    THEN Raise("NotImplementedError", "LCO split mode not implemented", self)
    ELSE IF mode = "LDO"
    THEN Raise("NotImplementedError", "LDO split mode not implemented", self)
    ELSE Return(<<>>, [self EXCEPT !.cv_splits = <<(<<>>)>>])

\* split_dataset: LPO calls the splitter, caches and returns its folds; LCO
\* and LDO raise before the assignment; any other mode matches no branch, so
\* reading the unassigned local cv_splits on the caching line raises
\* UnboundLocalError before the attribute is written.
split_dataset(self, n_cv_splits, mode, split_validation, validation_ratio, random_state) ==
    IF mode = "LPO"
    THEN LET cv_splits == leave_pair_out_cv(n_cv_splits, self.response,
                              self.cell_line_ids, self.drug_ids,
                              split_validation, validation_ratio, random_state)
         IN  Return(cv_splits, [self EXCEPT !.cv_splits = <<cv_splits>>])
    ELSE IF mode = "LCO"
    THEN Raise("NotImplementedError", "LCO split mode not implemented", self)
    ELSE IF mode = "LDO"
    THEN Raise("NotImplementedError", "LDO split mode not implemented", self)
    ELSE Raise("UnboundLocalError", "cv_splits", self)

\* ------------------------------------------------------ FeatureDataset
\* get_ids: the keys of features, in insertion order
get_ids(self) == self.features.keys

\* get_view_names: the keys of the first entity's view dict
get_view_names(self) == self.features.val[self.features.keys[1]].keys

\* __init__: stores the mapping unchecked and reads the view names from its
\* first entity; indexing the empty key list of an empty mapping raises
\* IndexError and no object results.
FeatureDataset_init(features) ==
    IF Len(features.keys) = 0
    THEN Raise("IndexError", "list index out of range", NoObject)
    ELSE LET self == [class |-> "FeatureDataset", features |-> features]
         IN  Return(None,
                    [class |-> "FeatureDataset",
                     features |-> features,
                     view_names |-> get_view_names(self),
                     identifier |-> get_ids(self)])

\* randomize_features: `views` is assigned in the body, hence a local of the
\* function, and the first statement reads it before any assignment: every
\* call raises UnboundLocalError there and no branch on `mode` is reached.
randomize_features(self, views_to_randomize, mode) ==
    Raise("UnboundLocalError", "views", self)

\* get_feature_matrix that stacks the rows in the dataset's own key order
get_feature_matrix_key_order(self, view, identifiers) ==
    LET f == self.features
        InIds(e) == e \in Range(identifiers)
        own == SelectSeq(f.keys, InIds)
    IN  IF \E i \in 1..Len(identifiers) :
               \/ identifiers[i] \notin Range(f.keys)
               \/ view \notin Range(f.val[identifiers[i]].keys)
        THEN Raise("KeyError", "", self)
        ELSE IF Len(identifiers) = 0
        THEN Raise("ValueError", "need at least one array to stack", self)
        ELSE IF \E e \in Range(identifiers) :
                   Len(f.val[e].val[view]) # Len(f.val[identifiers[1]].val[view])
        THEN Raise("ValueError", "all input arrays must have the same shape", self)
        ELSE Return([i \in 1..Len(identifiers) |->
                        f.val[own[((i - 1) % Len(own)) + 1]].val[view]], self)

\* get_feature_matrix: the list comprehension looks up features[identifier]
\* and then [view] for each identifier in turn, so the first identifier with
\* a missing key raises KeyError carrying that key; numpy.stack then rejects
\* an empty list and arrays of unequal shape with ValueError, and otherwise
\* returns the vectors as rows, in the given order.
get_feature_matrix(self, view, identifiers) ==
    LET f == self.features
        bad == {i \in 1..Len(identifiers) :
                   \/ identifiers[i] \notin Range(f.keys)
                   \/ view \notin Range(f.val[identifiers[i]].keys)}
        arrays == [i \in 1..Len(identifiers) |-> f.val[identifiers[i]].val[view]]
    IN  IF bad # {}
        THEN LET identifier == identifiers[Min(bad)]
             IN  Raise("KeyError",
                       IF identifier \notin Range(f.keys) THEN identifier ELSE view,
                       self)
        ELSE IF Len(arrays) = 0
        THEN Raise("ValueError", "need at least one array to stack", self)
        ELSE IF \E i \in 1..Len(arrays) : Len(arrays[i]) # Len(arrays[1])
        THEN Raise("ValueError", "all input arrays must have the same shape", self)
        ELSE Return(arrays, self)

\* ------------------------------------------------------------ behaviour
NoCall == [op |-> "none", args |-> <<>>, exc |-> "none", arg |-> "", ret |-> None]

Call(op, args, out) == [op |-> op, args |-> args, exc |-> out.exc, arg |-> out.arg, ret |-> out.ret]

Init ==
    /\ obj = NoObject
    /\ last = NoCall

\* DrugResponseDataset(target_type, response, cell_line_ids, drug_ids).
\* Objects share no state, so a behaviour follows one object from its
\* construction on.
NewDrugResponseDataset ==
    /\ obj = NoObject
    /\ \E target_type \in TargetTypes, response \in SeqsUpTo(Responses, MaxN), cell_line_ids \in SeqsUpTo(CellLines, MaxN), drug_ids \in SeqsUpTo(Drugs, MaxN) :
        LET out == DrugResponseDataset_init(target_type, response, cell_line_ids, drug_ids)
        IN  /\ obj' = out.self
            /\ last' = Call("DrugResponseDataset", <<>>, out)

\* dataset.split_dataset(n_cv_splits, mode, split_validation, validation_ratio, random_state)
\* The other arguments are read only when mode is LPO; for the other modes
\* one choice of them stands for all.
SplitDataset ==
    /\ obj.class = "DrugResponseDataset"
    /\ \E n_cv_splits \in 1..MaxK, mode \in SplitModes, split_validation \in BOOLEAN, validation_ratio \in ValidationRatios, random_state \in Seeds :
        /\ mode # "LPO" => (n_cv_splits = 1 /\ split_validation /\ validation_ratio = 10 /\ random_state = 1)
        /\ LET out == split_dataset(obj, n_cv_splits, mode, split_validation, validation_ratio, random_state)
           IN  /\ obj' = out.self
               /\ last' = Call("split_dataset", [n_cv_splits |-> n_cv_splits, mode |-> mode, split_validation |-> split_validation], out)

\* FeatureDataset(features); a constructor that raises leaves no new object
NewFeatureDataset ==
    /\ obj = NoObject
    /\ \E features \in Dicts(Entities, ViewDicts) :
        LET out == FeatureDataset_init(features)
        IN  /\ obj' = IF out.exc = "none" THEN out.self ELSE obj
            /\ last' = Call("FeatureDataset", <<>>, out)

\* dataset.randomize_features(views_to_randomize, mode), with a view name or
\* a list of view names
RandomizeFeatures ==
    /\ obj.class = "FeatureDataset"
    /\ \E is_str \in BOOLEAN, names \in KeyOrders(Views), mode \in RandomizeModes :
        /\ Len(names) >= 1
        /\ is_str => Len(names) = 1
        /\ LET views_to_randomize == [is_str |-> is_str, names |-> names]
               out == randomize_features(obj, views_to_randomize, mode)
           IN  /\ obj' = out.self
               /\ last' = Call("randomize_features", [views_to_randomize |-> views_to_randomize, mode |-> mode], out)

\* dataset.get_feature_matrix(view, identifiers)
GetFeatureMatrix ==
    /\ obj.class = "FeatureDataset"
    /\ \E view \in Views, identifiers \in SeqsUpTo(Identifiers, MaxIds) :
        LET out == get_feature_matrix(obj, view, identifiers)
        IN  /\ obj' = out.self
            /\ last' = Call("get_feature_matrix", [view |-> view, identifiers |-> identifiers], out)

Next ==
    \/ NewDrugResponseDataset
    \/ SplitDataset
    \/ NewFeatureDataset
    \/ RandomizeFeatures
    \/ GetFeatureMatrix

Spec == Init /\ [][Next]_vars

\* --------------------------------------------------------------- claims
IsSplitCall == obj.class = "DrugResponseDataset" /\ last.op = "split_dataset"

IsLPOResult == IsSplitCall /\ last.args.mode = "LPO" /\ last.exc = "none"

Aligned == Len(obj.response) = Len(obj.cell_line_ids) /\ Len(obj.cell_line_ids) = Len(obj.drug_ids)

Records == 0..(Len(obj.response) - 1)

FoldsDisjoint(fold) ==
    /\ fold.train \cap fold.test = {}
    /\ fold.validation \cap fold.test = {}
    /\ fold.validation \cap fold.train = {}

\* C1: on a dataset of N aligned records, split_dataset(k, "LPO", ...) returns
\* k folds and every record index 0..N-1 lies in the test set of exactly one
\* of them (the test sets are pairwise disjoint and cover the index set).
C1_TestSetsPartitionRecords ==
    (IsSplitCall /\ last.args.mode = "LPO" /\ Aligned) =>
        /\ last.exc = "none"
        /\ Len(last.ret) = last.args.n_cv_splits
        /\ \A i \in 1..Len(last.ret) : last.ret[i].test \subseteq Records
        /\ \A r \in Records : Cardinality({i \in 1..Len(last.ret) : r \in last.ret[i].test}) = 1

\* three aligned records split into two folds, testing two and one of them
C1_Witness ==
    /\ IsLPOResult /\ Aligned
    /\ Len(obj.response) = 3
    /\ last.args.n_cv_splits = 2
    /\ Cardinality(last.ret[1].test) = 2
    /\ Cardinality(last.ret[2].test) = 1

\* C2: in every fold of an LPO split the train, validation and test index
\* sets are pairwise disjoint, and validation is empty when split_validation
\* is false.
C2_FoldSetsDisjoint ==
    IsLPOResult =>
        \A i \in 1..Len(last.ret) :
            /\ FoldsDisjoint(last.ret[i])
            /\ ~last.args.split_validation => last.ret[i].validation = {}

\* a split with validation in which some fold has a record in each of train,
\* validation and test
C2_Witness ==
    /\ IsLPOResult
    /\ last.args.split_validation
    /\ \E i \in 1..Len(last.ret) :
          /\ last.ret[i].train # {}
          /\ last.ret[i].validation # {}
          /\ last.ret[i].test # {}

\* C3: split_dataset with a mode other than LPO, LCO, LDO fails with the
\* invalid-argument error (Python's ValueError, the class randomize_features
\* raises for an unknown mode), while LCO and LDO fail with NotImplementedError.
C3_UnknownModeInvalidArgument ==
    IsSplitCall =>
        /\ last.args.mode \notin {"LPO", "LCO", "LDO"} => last.exc = "ValueError"
        /\ last.args.mode \in {"LCO", "LDO"} => last.exc = "NotImplementedError"

\* C4: every DrugResponseDataset that exists has response, cell_line_ids and
\* drug_ids of one length (a construction from unequal lengths having failed).
C4_ConstructedAligned ==
    obj.class = "DrugResponseDataset" => Aligned

Zeros(n) == [i \in 1..n |-> 0]

\* C5: randomize_features([viewA], "zeroing") on a dataset holding viewA
\* completes; afterwards every entity's viewA vector is all zeros of the
\* shape it had and every other view of every entity is as it was.
C5_ZeroingZeroesOnlyTheView ==
    [][(/\ obj.class = "FeatureDataset"
        /\ last'.op = "randomize_features"
        /\ last'.args.mode = "zeroing"
        /\ ~last'.args.views_to_randomize.is_str
        /\ Len(last'.args.views_to_randomize.names) = 1
        /\ \A e \in Range(obj.features.keys) :
              last'.args.views_to_randomize.names[1] \in Range(obj.features.val[e].keys))
       => LET viewA == last'.args.views_to_randomize.names[1]
          IN  /\ last'.exc = "none"
              /\ \A e \in Range(obj.features.keys) :
                    \A v \in Range(obj.features.val[e].keys) :
                        obj'.features.val[e].val[v] =
                            IF v = viewA
                            THEN Zeros(Len(obj.features.val[e].val[v]))
                            ELSE obj.features.val[e].val[v]]_vars

\* C6: randomize_features with a mode other than permutation, gaussian,
\* zeroing fails with the invalid-argument error (ValueError), whether the
\* views are given as one name or as a list.
C6_UnknownRandomizeModeInvalidArgument ==
    (obj.class = "FeatureDataset" /\ last.op = "randomize_features"
        /\ last.args.mode \notin {"permutation", "gaussian", "zeroing"})
    => last.exc = "ValueError"

IsMatrixCall == obj.class = "FeatureDataset" /\ last.op = "get_feature_matrix"

\* every listed identifier is an entity of the dataset and holds the view
AllHoldView ==
    \A i \in 1..Len(last.args.identifiers) :
        /\ last.args.identifiers[i] \in Range(obj.features.keys)
        /\ last.args.view \in Range(obj.features.val[last.args.identifiers[i]].keys)

Stored(i) == obj.features.val[last.args.identifiers[i]].val[last.args.view]

OneShape == \A i, j \in 1..Len(last.args.identifiers) : Len(Stored(i)) = Len(Stored(j))

RowsAsStored ==
    /\ last.exc = "none"
    /\ Len(last.ret) = Len(last.args.identifiers)
    /\ \A i \in 1..Len(last.args.identifiers) : last.ret[i] = Stored(i)

\* C7 as stated: for every sequence of identifiers present in the dataset
\* and holding the view, get_feature_matrix returns len(identifiers) rows,
\* row i being the stored vector of identifiers[i].
C7_RowsAsStoredForAnySequence ==
    (IsMatrixCall /\ AllHoldView) => RowsAsStored

\* C7 amended: for every non-empty sequence of identifiers present in the
\* dataset whose vectors for the view have one common shape,
\* get_feature_matrix returns len(identifiers) rows, row i being the stored
\* vector of identifiers[i]; for an empty sequence or vectors of different
\* shapes it fails with ValueError.
C7_RowsAsStoredWhenStackable ==
    (IsMatrixCall /\ AllHoldView) =>
        IF Len(last.args.identifiers) > 0 /\ OneShape
        THEN RowsAsStored
        ELSE last.exc = "ValueError"

\* two rows with different stored vectors, asked for against the key order
C7_Witness ==
    /\ IsMatrixCall /\ AllHoldView
    /\ last.exc = "none"
    /\ last.args.identifiers = <<"b", "a">>
    /\ obj.features.keys = <<"a", "b">>
    /\ last.ret[1] # last.ret[2]

\* C8: get_feature_matrix fails with MissingEntity when some identifier is
\* not a key of features and with MissingView when all identifiers are keys
\* but one lacks the view, two different error kinds (KeyError is read as
\* the dataset's MissingEntity kind).
C8_MissingEntityAndViewDistinct ==
    IsMatrixCall =>
        LET ids == last.args.identifiers
            absent == \E i \in 1..Len(ids) : ids[i] \notin Range(obj.features.keys)
            viewless == \E i \in 1..Len(ids) : last.args.view \notin Range(obj.features.val[ids[i]].keys)
        IN  /\ absent => last.exc \in {"MissingEntity", "KeyError"}
            /\ (~absent /\ viewless) => last.exc = "MissingView"

\* C9: in every FeatureDataset that exists each entity's set of view names
\* equals view_names (a construction from differing view sets having failed
\* with SchemaMismatch).
C9_OneViewSchema ==
    obj.class = "FeatureDataset" =>
        \A e \in Range(obj.features.keys) :
            Range(obj.features.val[e].keys) = Range(obj.view_names)

\* C10: a split_dataset call leaves target_type, response, cell_line_ids and
\* drug_ids as they were and predictions None; a call with a mode other than
\* LPO fails, a failing call leaves cv_splits as it was (unset if never set),
\* and a successful call caches the folds it returns.
C10_SplitLeavesDatasetAlone ==
    [][(obj.class = "DrugResponseDataset" /\ last'.op = "split_dataset") =>
        /\ obj'.class = "DrugResponseDataset"
        /\ obj'.target_type = obj.target_type
        /\ obj'.response = obj.response
        /\ obj'.cell_line_ids = obj.cell_line_ids
        /\ obj'.drug_ids = obj.drug_ids
        /\ obj'.predictions = None
        /\ last'.args.mode # "LPO" => last'.exc # "none"
        /\ last'.exc # "none" => obj'.cv_splits = obj.cv_splits
        /\ last'.exc = "none" => obj'.cv_splits = <<last'.ret>>]_vars

\* a call with an unrecognized mode after a successful split of two or more
\* records: the cached folds are still there
C10_Witness ==
    /\ IsSplitCall
    /\ last.args.mode = "XYZ"
    /\ last.exc = "UnboundLocalError"
    /\ Len(obj.response) >= 2
    /\ obj.cv_splits # None
    /\ obj.predictions = None

=============================================================================
